---- MODULE Spec2Model ----
(***************************************************************************)
(* The agentic tool-execution loop of src/agent.py (Agent.run), with the   *)
(* tool executor of src/tools.py (ToolExecutor.execute) and the usage      *)
(* accounting of src/openrouter_client.py (OpenRouterClient.get_usage).    *)
(*                                                                         *)
(* The model gateway and the shell are the environment: every gateway      *)
(* call either raises or returns one response drawn from a bounded set of  *)
(* scripted responses.  Log output is not modelled, and the elapsed time   *)
(* of a run is one opaque value.                                           *)
(*                                                                         *)
(* Eight specifications share the definitions: Spec is one Agent.run on a  *)
(* fresh Agent, RetrySpec is one Agent.run_with_retry on a fresh Agent,    *)
(* RerunSpec is Agent.run called again and again on one Agent with shell   *)
(* commands that may run past the deadline, ToolSpec is a ToolExecutor     *)
(* applied to the files of its working directory, PairSpec is two Agents   *)
(* with distinct working directories handling tool calls side by side,     *)
(* HttpSpec is OpenRouterClient.chat_completion, LoopSpec is the           *)
(* stand-alone loop agent() of src/openrouter_agent.py, and PoolSpec is    *)
(* run_tests of src/test_apps.py with its thread pool.                     *)
(***************************************************************************)
EXTENDS Integers, Sequences, FiniteSets, TLC

VARIABLES
    max_iterations,        \* Agent.max_iterations (constructor option)
    conversation_history,  \* Agent.conversation_history
    total_tokens,          \* Agent.total_tokens
    total_tool_calls,      \* Agent.total_tool_calls
    iterations,            \* local of Agent.run
    finished,              \* local of Agent.run
    final_result,          \* local of Agent.run
    tool_results,          \* local of Agent.run (results of the current batch)
    tool_idx,              \* position of the for loop over message["tool_calls"]
    pc,                    \* control point of Agent.run
    ret,                   \* the record Agent.run returned
    sent,                  \* history: the message list of every gateway call of this run
    exec_log,              \* history: iteration, id and name of every call handed to the executor
    reported,              \* history: the sum of the total_tokens the gateway reported in this run
    disk,                  \* the files below ToolExecutor.working_dir: path -> characters
    linesep,               \* os.linesep of the platform
    max_retries,           \* argument of Agent.run_with_retry
    attempt,               \* loop variable of Agent.run_with_retry
    final,                 \* what Agent.run_with_retry returned
    attempts_started,      \* history: the number of Agent.run calls of this run_with_retry
    seen_success,          \* history: some attempt of this run_with_retry returned success
    last_call,             \* history: the last call applied to the executor on its own
    last_result,           \* history: the result of that call
    disk_before,           \* history: the files before that call
    fs,                    \* the files two Agents share: path -> characters
    agents,                \* conversation_history and total_tool_calls of each of two Agents
    alone,                 \* history: the files and conversation of each Agent run without the other
    touched,               \* history: the paths each Agent has opened
    http_response,         \* chat_completion: the HTTP response in hand
    http_requests,         \* history: the HTTP requests issued by the current chat_completion call
    outcome,               \* history: what the last chat_completion call returned or raised
    completions,           \* history: the number of chat_completion calls that have ended
    agent_max_iterations,  \* agent(): the argument max_iterations
    messages,              \* agent(): the local messages
    iteration,             \* agent(): the passes of the for loop started
    call_idx,              \* agent(): position of the for loop over msg.tool_calls
    answer,                \* agent(): the second component of what it returned
    raised_at,             \* history: the line of agent() that raised
    problems,              \* run_tests: the number of problems of the problems file
    futures,               \* run_tests: the futures of the thread-pool tasks
    collected,             \* run_tests: the futures as_completed has yielded
    tests,                 \* run_tests: results["tests"], problem -> strategy name -> result
    summary                \* run_tests: results["summary"]

\* the variables of Agent.run_with_retry
retryVars == << max_retries, attempt, final, attempts_started, seen_success >>

\* the variables of the executor applied on its own
toolVars == << last_call, last_result, disk_before >>

\* the variables of the one Agent and its executor, the control point apart
agentVars == << max_iterations, conversation_history, total_tokens, total_tool_calls,
                iterations, finished, final_result, tool_results, tool_idx, ret,
                sent, exec_log, reported, disk, linesep, retryVars, toolVars >>

\* the variables of two Agents run side by side
pairVars == << fs, agents, alone, touched >>

\* the variables of OpenRouterClient.chat_completion
httpVars == << http_response, http_requests, outcome, completions >>

\* the variables of the stand-alone loop agent() of openrouter_agent.py
loopVars == << agent_max_iterations, messages, iteration, call_idx, answer, raised_at >>

\* the variables of run_tests of test_apps.py
poolVars == << problems, futures, collected, tests, summary >>

\* the variables of the programs beside one Agent
otherVars == << pairVars, httpVars, loopVars, poolVars >>

\* the variables Agent.run leaves alone
outerVars == << linesep, retryVars, toolVars, otherVars >>

vars == << max_iterations, conversation_history, total_tokens, total_tool_calls,
           iterations, finished, final_result, tool_results, tool_idx, pc, ret,
           sent, exec_log, reported, disk, linesep, retryVars, toolVars,
           otherVars >>

---------------------------------------------------------------------------
(* Bounds of the model.                                                    *)

\* largest value of the max_iterations option that is explored
MaxIter == 3

\* largest number of tool calls the scripted gateway requests during one run
MaxToolCalls == 3

\* largest total_tokens value a gateway response reports
MaxUsage == 1

\* largest value of the max_retries argument that is explored
MaxRetries == 2

\* largest number of characters of a file
MaxLen == 2

\* largest number of characters of the old_text, new_text and content arguments
MaxText == 1

\* largest number of Agent.run calls made one after another on one Agent
MaxRuns == 2

\* largest number of tool calls each of two Agents run side by side handles
MaxPairCalls == 2

\* largest number of OpenRouterClient.chat_completion calls made one after another
MaxCompletions == 2

\* largest number of redirections the endpoint answers one call with
MaxRedirects == 1

\* largest number of tool calls in one response to the stand-alone loop
MaxBatch == 2

\* largest number of problems in the problems file of run_tests
MaxProblems == 2

---------------------------------------------------------------------------
(* Values.                                                                 *)

\* Python's None: a value distinct from every text of the model
None == "<None>"

SystemPrompt == "system prompt"

Task == "task"

\* The arguments strings the scripted gateway puts into its tool calls.
ArgsDone == "{\"summary\": \"done\"}"

ArgsEmpty == "{\"summary\": \"\"}"

ArgsNull == "{\"summary\": null}"

ArgsNoSummary == "{}"

ArgsCommand == "{\"command\": \"pytest\"}"

ArgsCommandFails == "{\"command\": \"false\"}"

ArgsMalformed == "{\"command\": "

ArgsSleep == "{\"command\": \"sleep 100\"}"

ArgsWrite == "{\"file_path\": \"test.txt\", \"content\": \"a\"}"

\* Text that is read from or written to a file is a sequence of characters.
CR == "\r"

LF == "\n"

\* the characters of the files and texts of the model
Alphabet == {"a", CR, LF}

\* the texts of at most n characters
Texts(n) == UNION { [1..k -> Alphabet] : k \in 0..n }

\* json.loads on the arguments strings above: the parsed mapping, or a raise.
JsonLoads(s) ==
    CASE s = ArgsDone      -> [raised |-> FALSE, value |-> [summary |-> "done"]]
      [] s = ArgsEmpty     -> [raised |-> FALSE, value |-> [summary |-> ""]]
      [] s = ArgsNull      -> [raised |-> FALSE, value |-> [summary |-> None]]
      [] s = ArgsNoSummary -> [raised |-> FALSE, value |-> << >>]
      [] s = ArgsCommand   -> [raised |-> FALSE, value |-> [command |-> "pytest"]]
      [] s = ArgsCommandFails -> [raised |-> FALSE, value |-> [command |-> "false"]]
      [] s = ArgsSleep     -> [raised |-> FALSE, value |-> [command |-> "sleep 100"]]
      [] s = ArgsWrite     -> [raised |-> FALSE,
                               value |-> [file_path |-> "test.txt", content |-> <<"a">>]]
      [] OTHER             -> [raised |-> TRUE, error |-> "Expecting value"]

\* json.dumps(result): the serialised text of a result
JsonDumps(v) == [json |-> v]

---------------------------------------------------------------------------
(* src/tools.py                                                            *)

\* the shell: exit code and output of the commands of the scripted gateway
returncode(command) == IF command = "false" THEN 1 ELSE 0

stdout(command) == IF command = "pytest" THEN "passed" ELSE ""

\* the seconds the commands of the scripted gateway run for
duration(command) == IF command = "sleep 100" THEN 100 ELSE 0

\* line 163: timeout=60
Timeout == 60

\* a deadline that is reported like any other failure to run the command
TimeoutAsFailure ==
    [success |-> FALSE, error |-> "Failed to execute command"]

\* lines 175-179: the result of a command that runs past the deadline
TimeoutResult ==
    [success |-> FALSE, error |-> "Command timed out after 60 seconds"]

\* a bash result that carries the finished flag
BashFinishes(command) ==
    [success |-> returncode(command) = 0, output |-> stdout(command),
     return_code |-> returncode(command), finished |-> TRUE]

\* lines 153-179: ToolExecutor.bash
bash(command) ==
    IF duration(command) > Timeout
    THEN TimeoutResult
    ELSE [success |-> returncode(command) = 0, output |-> stdout(command),
          return_code |-> returncode(command)]

\* a finish result that does not carry the finished flag
FinishNoFlag(arguments) ==
    [success |-> TRUE, output |-> arguments["summary"]]

\* line 140: the finish branch of ToolExecutor.execute
FinishResult(arguments) ==
    [success |-> TRUE, output |-> arguments["summary"], finished |-> TRUE]

\* the except branch of ToolExecutor.execute: str(KeyError(key))
KeyErrorResult(key) ==
    [success |-> FALSE, error |-> key]

\* ToolExecutor.working_dir
working_dir == "."

\* lines 190, 215: os.path.join(self.working_dir, file_path) for a relative file_path
full_path(file_path) == << working_dir, file_path >>

\* open(..., 'r'): text mode turns "\r\n" and a lone "\r" into "\n"
RECURSIVE TranslateRead(_)
TranslateRead(text) ==
    IF text = << >> THEN << >>
    ELSE IF text[1] = CR
         THEN IF Len(text) >= 2 /\ text[2] = LF
              THEN << LF >> \o TranslateRead(SubSeq(text, 3, Len(text)))
              ELSE << LF >> \o TranslateRead(Tail(text))
         ELSE << text[1] >> \o TranslateRead(Tail(text))

\* open(..., 'w'): text mode turns "\n" into os.linesep
RECURSIVE TranslateWrite(_)
TranslateWrite(text) ==
    IF text = << >> THEN << >>
    ELSE (IF text[1] = LF THEN linesep ELSE << text[1] >>) \o TranslateWrite(Tail(text))

\* lines 186-209: ToolExecutor.read_file
read_file(file_path) ==
    IF full_path(file_path) \in DOMAIN disk
    THEN [success |-> TRUE, output |-> TranslateRead(disk[full_path(file_path)])]
    ELSE [success |-> FALSE, error |-> "File not found"]

\* lines 211-232: ToolExecutor.write_file, the result
write_file(file_path, content) ==
    [success |-> TRUE, output |-> "Successfully wrote"]

\* lines 211-232: ToolExecutor.write_file, the files after the call
write_file_disk(file_path, content) ==
    [p \in DOMAIN disk \cup {full_path(file_path)} |->
        IF p = full_path(file_path) THEN TranslateWrite(content) ELSE disk[p]]

\* the places where old_text occurs in content
Occurrences(content, old_text) ==
    { i \in 1..(Len(content) - Len(old_text) + 1) :
        SubSeq(content, i, i + Len(old_text) - 1) = old_text }

\* line 245: old_text in content
Contains(content, old_text) == Occurrences(content, old_text) # {}

\* line 252: content.replace(old_text, new_text, 1)
Replace1(content, old_text, new_text) ==
    IF ~Contains(content, old_text) THEN content
    ELSE LET i == CHOOSE i \in Occurrences(content, old_text) :
                     \A j \in Occurrences(content, old_text) : i <= j
         IN  SubSeq(content, 1, i - 1) \o new_text
                 \o SubSeq(content, i + Len(old_text), Len(content))

\* lines 234-259: ToolExecutor.edit_file, the result
edit_file(file_path, old_text, new_text) ==
    LET read_result == read_file(file_path)
    IN  IF ~read_result.success THEN read_result
        ELSE IF ~Contains(read_result.output, old_text)
             THEN [success |-> FALSE, error |-> "Text to replace not found"]
             ELSE write_file(file_path,
                             Replace1(read_result.output, old_text, new_text))

\* lines 234-259: ToolExecutor.edit_file, the files after the call
edit_file_disk(file_path, old_text, new_text) ==
    LET read_result == read_file(file_path)
    IN  IF ~read_result.success THEN disk
        ELSE IF ~Contains(read_result.output, old_text)
             THEN disk
             ELSE write_file_disk(file_path,
                                  Replace1(read_result.output, old_text, new_text))

\* ToolExecutor.execute(tool_name, arguments)
execute(tool_name, arguments) ==
    CASE tool_name = "bash" ->
            IF "command" \in DOMAIN arguments
            THEN bash(arguments["command"])
            ELSE KeyErrorResult("'command'")
      [] tool_name = "read_file" ->
            IF "file_path" \in DOMAIN arguments
            THEN read_file(arguments["file_path"])
            ELSE KeyErrorResult("'file_path'")
      [] tool_name = "write_file" ->
            IF "file_path" \notin DOMAIN arguments THEN KeyErrorResult("'file_path'")
            ELSE IF "content" \notin DOMAIN arguments THEN KeyErrorResult("'content'")
            ELSE write_file(arguments["file_path"], arguments["content"])
      [] tool_name = "edit_file" ->
            IF "file_path" \notin DOMAIN arguments THEN KeyErrorResult("'file_path'")
            ELSE IF "old_text" \notin DOMAIN arguments THEN KeyErrorResult("'old_text'")
            ELSE IF "new_text" \notin DOMAIN arguments THEN KeyErrorResult("'new_text'")
            ELSE edit_file(arguments["file_path"], arguments["old_text"],
                           arguments["new_text"])
      [] tool_name = "finish" ->
            IF "summary" \in DOMAIN arguments
            THEN FinishResult(arguments)
            ELSE KeyErrorResult("'summary'")
      [] OTHER -> [success |-> FALSE, error |-> "Unknown tool"]

\* the files after ToolExecutor.execute(tool_name, arguments)
execute_disk(tool_name, arguments) ==
    CASE tool_name = "write_file"
           /\ {"file_path", "content"} \subseteq DOMAIN arguments ->
            write_file_disk(arguments["file_path"], arguments["content"])
      [] tool_name = "edit_file"
           /\ {"file_path", "old_text", "new_text"} \subseteq DOMAIN arguments ->
            edit_file_disk(arguments["file_path"], arguments["old_text"],
                           arguments["new_text"])
      [] OTHER -> disk

\* result.get("finished")
GetFinished(result) ==
    IF "finished" \in DOMAIN result THEN result["finished"] ELSE FALSE

---------------------------------------------------------------------------
(* src/openrouter_client.py                                                *)

\* a usage block that is never read
UsageIgnored(response) == 0

\* a usage block that is read only from a response with choices
UsageAfterMessage(response) ==
    IF "usage" \in DOMAIN response /\ "choices" \in DOMAIN response
    THEN response["usage"].total_tokens
    ELSE 0

\* OpenRouterClient.get_usage(response)["total_tokens"]
get_usage(response) ==
    IF "usage" \in DOMAIN response THEN response["usage"].total_tokens ELSE 0

---------------------------------------------------------------------------
(* The scripted gateway (environment).                                     *)

\* name and arguments of the tool calls the scripted gateway may request
CallShapes ==
    { [name |-> "finish", arguments |-> ArgsDone],
      [name |-> "finish", arguments |-> ArgsEmpty],
      [name |-> "finish", arguments |-> ArgsNull],
      [name |-> "finish", arguments |-> ArgsNoSummary],
      [name |-> "bash",   arguments |-> ArgsCommand],
      [name |-> "bash",   arguments |-> ArgsCommandFails],
      [name |-> "bash",   arguments |-> ArgsMalformed] }

\* a tool call as the gateway returns it; the id is the gateway's token for
\* position k of the response to gateway call i
ToolCall(i, k, shape) ==
    [id |-> <<i, k>>, function |-> shape]

\* name and arguments of the tool calls the scripted gateway may request
\* during Agent.run_with_retry
RetryShapes ==
    { [name |-> "finish",     arguments |-> ArgsDone],
      [name |-> "write_file", arguments |-> ArgsWrite],
      [name |-> "bash",       arguments |-> ArgsMalformed] }

\* name and arguments of the tool calls the scripted gateway may request
\* when Agent.run is called again on the same Agent
RerunShapes ==
    { [name |-> "finish", arguments |-> ArgsDone],
      [name |-> "bash",   arguments |-> ArgsSleep],
      [name |-> "bash",   arguments |-> ArgsMalformed] }

\* all batches of n tool calls of the response to gateway call i
BatchesOf(shapes, i, n) ==
    { [k \in 1..n |-> ToolCall(i, k, f[k])] : f \in [1..n -> shapes] }

Batches(i, n) == BatchesOf(CallShapes, i, n)

\* the assistant messages the response to gateway call i may carry, with at
\* most room tool calls
MessagesOf(shapes, i, room) ==
    { [role |-> "assistant", content |-> None, tool_calls |-> b] :
        b \in UNION { BatchesOf(shapes, i, n) : n \in 0..room } }

Messages(i, room) == MessagesOf(CallShapes, i, room)

\* a choice that carries no message
NoMessage == [finish_reason |-> "error"]

\* the responses to gateway call i: with or without a usage block, and
\* without choices, with a choice without message, or with a message
ResponsesOf(shapes, i, room) ==
    LET bodies == { [choices |-> << [message |-> m] >>] : m \in MessagesOf(shapes, i, room) }
                    \cup { << >>, [choices |-> << NoMessage >>] }
    IN  bodies \cup
        { [f \in DOMAIN b \cup {"usage"} |->
              IF f = "usage" THEN [total_tokens |-> u] ELSE b[f]] :
            b \in bodies, u \in 1..MaxUsage }

Responses(i, room) == ResponsesOf(CallShapes, i, room)

---------------------------------------------------------------------------
(* src/agent.py: Agent.__init__                                            *)

\* a working directory without files
NoFiles == [p \in {} |-> << >>]

\* none of the programs beside the one Agent has started
PairIdle ==
    /\ fs = NoFiles
    /\ agents = << >>
    /\ alone = << >>
    /\ touched = << >>

HttpIdle ==
    /\ http_response = << >>
    /\ http_requests = 0
    /\ outcome = << >>
    /\ completions = 0

LoopIdle ==
    /\ agent_max_iterations = 0
    /\ messages = << >>
    /\ iteration = 0
    /\ call_idx = 0
    /\ answer = None
    /\ raised_at = 0

PoolIdle ==
    /\ problems = 0
    /\ futures = << >>
    /\ collected = {}
    /\ tests = << >>
    /\ summary = << >>

OtherIdle ==
    /\ PairIdle
    /\ HttpIdle
    /\ LoopIdle
    /\ PoolIdle

\* an Agent that is constructed and never run
AgentIdle ==
    /\ max_iterations = 0
    /\ conversation_history = << >>
    /\ total_tokens = 0
    /\ total_tool_calls = 0
    /\ iterations = 0
    /\ finished = FALSE
    /\ final_result = None
    /\ tool_results = << >>
    /\ tool_idx = 0
    /\ ret = << >>
    /\ sent = << >>
    /\ exec_log = << >>
    /\ reported = 0
    /\ disk = NoFiles
    /\ linesep = << LF >>
    /\ max_retries = 0
    /\ attempt = 0
    /\ final = << >>
    /\ attempts_started = 0
    /\ seen_success = FALSE
    /\ last_call = << >>
    /\ last_result = << >>
    /\ disk_before = NoFiles

Init ==
    /\ max_iterations \in 0..MaxIter
    /\ conversation_history = << >>
    /\ total_tokens = 0
    /\ total_tool_calls = 0
    /\ iterations = 0
    /\ finished = FALSE
    /\ final_result = None
    /\ tool_results = << >>
    /\ tool_idx = 0
    /\ pc = "constructed"
    /\ ret = << >>
    /\ sent = << >>
    /\ exec_log = << >>
    /\ reported = 0
    /\ disk = NoFiles
    /\ linesep = << LF >>
    /\ max_retries = 0
    /\ attempt = 0
    /\ final = << >>
    /\ attempts_started = 0
    /\ seen_success = FALSE
    /\ last_call = << >>
    /\ last_result = << >>
    /\ disk_before = NoFiles
    /\ OtherIdle

(* src/agent.py: Agent.run                                                 *)

\* the record of the except branch, had the iteration been counted after the call
ErrorRecordUncounted(e) ==
    [success |-> FALSE, error |-> e, iterations |-> iterations - 1,
     tokens |-> total_tokens', tool_calls |-> total_tool_calls']

\* lines 157-165: the record of the except branch
ErrorRecord(e) ==
    [success |-> FALSE, error |-> e, iterations |-> iterations,
     tokens |-> total_tokens', tool_calls |-> total_tool_calls']

\* an except clause that catches only the KeyError of a missing field
CaughtKeyError(e) == e \in {"'choices'", "'message'"}

\* line 157: "except Exception" catches what the gateway, json.loads and the
\* lookups in a response raise
Caught(e) == TRUE

\* an exception e is raised inside the try block of lines 74-165: the except
\* branch returns its record, or the exception leaves Agent.run
Raise(e) ==
    IF Caught(e)
    THEN ret' = ErrorRecord(e) /\ pc' = "returned"
    ELSE UNCHANGED ret /\ pc' = "raised"

\* the message of the current iteration: the last assistant turn appended
message == conversation_history[Len(sent[Len(sent)]) + 1]

\* a run that adds its two turns to what the conversation held before
InitialConversationAdded ==
    conversation_history \o
        << [role |-> "system", content |-> SystemPrompt],
           [role |-> "user", content |-> Task] >>

\* lines 59-62: the conversation a run starts with
InitialConversation ==
    << [role |-> "system", content |-> SystemPrompt],
       [role |-> "user", content |-> Task] >>

\* lines 56-72: the conversation is initialised and the locals are set
RunStart ==
    /\ pc = "constructed"
    /\ conversation_history' = InitialConversation
    /\ iterations' = 0
    /\ finished' = FALSE
    /\ final_result' = None
    /\ pc' = "while"
    /\ UNCHANGED << max_iterations, total_tokens, total_tool_calls, tool_results,
                    tool_idx, ret, sent, exec_log, reported, disk,
                    outerVars >>

\* the loop condition with <= for <
LoopGuardInclusive == iterations <= max_iterations /\ ~finished

\* the loop condition of line 75
LoopGuard == iterations < max_iterations /\ ~finished

\* lines 75-85: the loop condition holds, the iteration is counted and the
\* gateway is called with the conversation
LoopIterate ==
    /\ pc = "while"
    /\ LoopGuard
    /\ iterations' = iterations + 1
    /\ sent' = Append(sent, conversation_history)
    /\ pc' = "gateway"
    /\ UNCHANGED << max_iterations, conversation_history, total_tokens,
                    total_tool_calls, finished, final_result, tool_results,
                    tool_idx, ret, exec_log, reported, disk,
                    outerVars >>

\* line 75: the loop condition fails
LoopLeave ==
    /\ pc = "while"
    /\ ~LoopGuard
    /\ pc' = "exit"
    /\ UNCHANGED << max_iterations, conversation_history, total_tokens,
                    total_tool_calls, iterations, finished, final_result,
                    tool_results, tool_idx, ret, sent, exec_log, reported, disk,
                    outerVars >>

\* lines 80-85, 157-165: chat_with_tools raises
GatewayRaise ==
    /\ pc = "gateway"
    /\ UNCHANGED << total_tokens, total_tool_calls >>
    /\ Raise("Request failed")
    /\ UNCHANGED << max_iterations, conversation_history, iterations, finished,
                    final_result, tool_results, tool_idx, sent, exec_log, reported, disk,
                    outerVars >>

\* the test of line 134 without the early end (the whole budget is spent)
StuckBreakAtBudget == iterations >= max_iterations

\* the test of line 134 with > for >=
StuckBreakStrict == iterations > max_iterations - 1

\* line 134: the test that ends the loop after a turn without tool calls
StuckBreak == iterations >= max_iterations - 1

\* lines 87-99, 132-135: the response is received
GatewayRespond(response) ==
    /\ pc = "gateway"
    /\ total_tokens' = total_tokens + get_usage(response)
    /\ UNCHANGED total_tool_calls
    /\ IF "choices" \notin DOMAIN response
       THEN /\ Raise("'choices'")
            /\ UNCHANGED << conversation_history, tool_results, tool_idx >>
       ELSE IF "message" \notin DOMAIN response["choices"][1]
       THEN /\ Raise("'message'")
            /\ UNCHANGED << conversation_history, tool_results, tool_idx >>
       ELSE LET msg == response["choices"][1].message
            IN  /\ conversation_history' = Append(conversation_history, msg)
                /\ UNCHANGED ret
                /\ IF msg.tool_calls # << >>
                   THEN /\ tool_results' = << >>
                        /\ tool_idx' = 1
                        /\ pc' = "tools"
                   ELSE /\ UNCHANGED << tool_results, tool_idx >>
                        /\ pc' = IF StuckBreak THEN "exit" ELSE "while"
    /\ UNCHANGED << max_iterations, iterations, finished, final_result, sent,
                    exec_log, disk,
                    outerVars >>

\* a tool-result turn numbered by the loop instead of carrying the call's id
ToolResultTurnOwnId(tool_call, result) ==
    [role |-> "tool", tool_call_id |-> <<0, tool_idx>>, content |-> JsonDumps(result)]

\* lines 123-127: the tool-result turn of one call
ToolResultTurn(tool_call, result) ==
    [role |-> "tool", tool_call_id |-> tool_call.id, content |-> JsonDumps(result)]

\* lines 102-127: one pass of the for loop over message["tool_calls"]
ExecuteToolCall ==
    /\ pc = "tools"
    /\ tool_idx <= Len(message.tool_calls)
    /\ LET tool_call == message.tool_calls[tool_idx]
           tool_name == tool_call.function.name
           parsed    == JsonLoads(tool_call.function.arguments)
       IN  /\ total_tool_calls' = total_tool_calls + 1
           /\ UNCHANGED total_tokens
           /\ IF parsed.raised
              THEN /\ Raise(parsed.error)
                   /\ UNCHANGED << finished, final_result, tool_results, tool_idx,
                                   exec_log, disk >>
              ELSE LET result == execute(tool_name, parsed.value)
                   IN  /\ disk' = execute_disk(tool_name, parsed.value)
                       /\ exec_log' = Append(exec_log, [iteration |-> iterations,
                                                        id |-> tool_call.id,
                                                        name |-> tool_name])
                       /\ IF GetFinished(result)
                          THEN /\ finished' = TRUE
                               /\ final_result' = result["output"]
                          ELSE UNCHANGED << finished, final_result >>
                       /\ tool_results' = Append(tool_results, ToolResultTurn(tool_call, result))
                       /\ tool_idx' = tool_idx + 1
                       /\ UNCHANGED << ret, pc >>
    /\ UNCHANGED << max_iterations, conversation_history, iterations, sent,
                    reported, outerVars >>

RECURSIVE Reverse(_)
Reverse(q) == IF q = << >> THEN << >> ELSE Append(Reverse(Tail(q)), Head(q))

\* the results of the batch appended last first
ExtendHistoryReversed ==
    /\ pc = "tools"
    /\ tool_idx > Len(message.tool_calls)
    /\ conversation_history' = conversation_history \o Reverse(tool_results)
    /\ pc' = "while"
    /\ UNCHANGED << max_iterations, total_tokens, total_tool_calls, iterations,
                    finished, final_result, tool_results, tool_idx, ret, sent,
                    exec_log, reported, disk,
                    outerVars >>

\* the results of the batch appended to a conversation that forgets its
\* oldest turn
ExtendHistoryDropping ==
    /\ pc = "tools"
    /\ tool_idx > Len(message.tool_calls)
    /\ conversation_history' = Tail(conversation_history) \o tool_results
    /\ pc' = "while"
    /\ UNCHANGED << max_iterations, total_tokens, total_tool_calls, iterations,
                    finished, final_result, tool_results, tool_idx, ret, sent,
                    exec_log, reported, disk,
                    outerVars >>

\* line 130: the results of the batch are appended to the conversation
ExtendHistory ==
    /\ pc = "tools"
    /\ tool_idx > Len(message.tool_calls)
    /\ conversation_history' = conversation_history \o tool_results
    /\ pc' = "while"
    /\ UNCHANGED << max_iterations, total_tokens, total_tool_calls, iterations,
                    finished, final_result, tool_results, tool_idx, ret, sent,
                    exec_log, reported, disk,
                    outerVars >>

\* line 137: time.time() - start_time
Elapsed == "elapsed"

\* line 140
Success == finished /\ final_result # None

\* lines 137-155: the record of the normal exit
ReturnRecord ==
    /\ pc = "exit"
    /\ ret' = [success |-> Success, result |-> final_result,
               iterations |-> iterations, tokens |-> total_tokens,
               tool_calls |-> total_tool_calls, time |-> Elapsed,
               conversation_history |-> conversation_history]
    /\ pc' = "returned"
    /\ UNCHANGED << max_iterations, conversation_history, total_tokens,
                    total_tool_calls, iterations, finished, final_result,
                    tool_results, tool_idx, sent, exec_log, reported, disk,
                    outerVars >>

\* the usage a response reports (0 without a usage block)
Reported(response) ==
    IF "usage" \in DOMAIN response THEN response["usage"].total_tokens ELSE 0

\* the scripted gateway answers gateway call Len(sent)
Respond ==
    /\ pc = "gateway"
    /\ \E response \in Responses(Len(sent), MaxToolCalls - total_tool_calls) :
          /\ GatewayRespond(response)
          /\ reported' = reported + Reported(response)

Next ==
    \/ RunStart
    \/ LoopIterate
    \/ LoopLeave
    \/ GatewayRaise
    \/ Respond
    \/ ExecuteToolCall
    \/ ExtendHistory
    \/ ReturnRecord

Spec == Init /\ [][Next]_vars

\* every gateway call and every tool execution returns or raises
FairSpec == Spec /\ WF_vars(Next)

---------------------------------------------------------------------------
(* src/agent.py: Agent.run_with_retry                                      *)

\* lines 195-206: run_with_retry is called on the constructed Agent
RetryCall ==
    /\ pc = "constructed"
    /\ \E n \in 0..MaxRetries : max_retries' = n
    /\ attempt' = 0
    /\ pc' = "for"
    /\ UNCHANGED << max_iterations, conversation_history, total_tokens,
                    total_tool_calls, iterations, finished, final_result,
                    tool_results, tool_idx, ret, sent, exec_log, reported, disk,
                    linesep, final, attempts_started, seen_success, toolVars, otherVars >>

\* lines 206-211 with lines 56-72: the loop has another attempt and calls
\* Agent.run, which initialises the conversation and its locals; result keeps
\* the record of the attempt before until line 211 assigns it again, and is
\* not read in between
RetryAttempt ==
    /\ pc = "for"
    /\ attempt < max_retries
    /\ attempts_started' = attempts_started + 1
    /\ conversation_history' = InitialConversation
    /\ iterations' = 0
    /\ finished' = FALSE
    /\ final_result' = None
    /\ tool_results' = << >>
    /\ tool_idx' = 0
    /\ ret' = << >>
    /\ sent' = << >>
    /\ exec_log' = << >>
    /\ reported' = 0
    /\ pc' = "while"
    /\ UNCHANGED << max_iterations, total_tokens, total_tool_calls, disk, linesep,
                    max_retries, attempt, final, seen_success, toolVars, otherVars >>

\* a wrapper that goes on to the next attempt whatever the result
StopNever(result) == FALSE

\* line 213: if result["success"]
StopOnSuccess(result) == result.success

\* a wrapper that never resets the Agent
ResetNever == FALSE

\* line 216: if attempt < max_retries - 1
ResetForNext == attempt < max_retries - 1

\* lines 211-221: Agent.run has returned its record to the loop
RetryCheck ==
    /\ pc = "returned"
    /\ seen_success' = (seen_success \/ ret.success)
    /\ IF StopOnSuccess(ret)
       THEN /\ final' = ret
            /\ pc' = "retry_returned"
            /\ UNCHANGED << attempt, conversation_history, total_tokens,
                            total_tool_calls >>
       ELSE /\ attempt' = attempt + 1
            /\ pc' = "for"
            /\ UNCHANGED final
            /\ IF ResetForNext
               THEN /\ conversation_history' = << >>
                    /\ total_tokens' = 0
                    /\ total_tool_calls' = 0
               ELSE UNCHANGED << conversation_history, total_tokens,
                                 total_tool_calls >>
    /\ UNCHANGED << max_iterations, iterations, finished, final_result,
                    tool_results, tool_idx, ret, sent, exec_log, reported, disk,
                    linesep, max_retries, attempts_started, toolVars, otherVars >>

\* line 223: the loop is over; result is unbound when no attempt was made
RetryEnd ==
    /\ pc = "for"
    /\ attempt >= max_retries
    /\ IF DOMAIN ret = {}
       THEN pc' = "retry_raised" /\ UNCHANGED final
       ELSE pc' = "retry_returned" /\ final' = ret
    /\ UNCHANGED << max_iterations, conversation_history, total_tokens,
                    total_tool_calls, iterations, finished, final_result,
                    tool_results, tool_idx, ret, sent, exec_log, reported, disk,
                    linesep, max_retries, attempt, attempts_started,
                    seen_success, toolVars, otherVars >>

\* the scripted gateway answers gateway call Len(sent) of the attempt
RetryRespond ==
    /\ pc = "gateway"
    /\ \E response \in ResponsesOf(RetryShapes, Len(sent),
                                    MaxToolCalls - total_tool_calls) :
          /\ GatewayRespond(response)
          /\ reported' = reported + Reported(response)

RetryNext ==
    \/ RetryCall
    \/ RetryAttempt
    \/ LoopIterate
    \/ LoopLeave
    \/ GatewayRaise
    \/ RetryRespond
    \/ ExecuteToolCall
    \/ ExtendHistory
    \/ ReturnRecord
    \/ RetryCheck
    \/ RetryEnd

RetrySpec == Init /\ [][RetryNext]_vars

---------------------------------------------------------------------------
(* src/agent.py: Agent.run called again and again on one Agent             *)

\* lines 56-72: Agent.run is called on the constructed Agent, or again after
\* it has returned; the record returned before belongs to the caller
RunCall ==
    /\ pc \in {"constructed", "returned"}
    /\ attempts_started < MaxRuns
    /\ attempts_started' = attempts_started + 1
    /\ conversation_history' = InitialConversation
    /\ iterations' = 0
    /\ finished' = FALSE
    /\ final_result' = None
    /\ tool_results' = << >>
    /\ tool_idx' = 0
    /\ ret' = << >>
    /\ sent' = << >>
    /\ exec_log' = << >>
    /\ reported' = 0
    /\ pc' = "while"
    /\ UNCHANGED << max_iterations, total_tokens, total_tool_calls, disk, linesep,
                    max_retries, attempt, final, seen_success, toolVars, otherVars >>

\* the scripted gateway answers gateway call Len(sent) of the run
RerunRespond ==
    /\ pc = "gateway"
    /\ \E response \in ResponsesOf(RerunShapes, Len(sent),
                                    MaxToolCalls - total_tool_calls) :
          /\ GatewayRespond(response)
          /\ reported' = reported + Reported(response)

RerunNext ==
    \/ RunCall
    \/ LoopIterate
    \/ LoopLeave
    \/ GatewayRaise
    \/ RerunRespond
    \/ ExecuteToolCall
    \/ ExtendHistory
    \/ ReturnRecord

RerunSpec == Init /\ [][RerunNext]_vars

---------------------------------------------------------------------------
(* src/tools.py: a ToolExecutor applied to the files of its working        *)
(* directory.                                                              *)

\* the path of the file the calls name (line 300)
TestFile == "test.txt"

\* the working directories explored: empty, or holding the file with any text
Disks ==
    {NoFiles} \cup
    { [p \in {full_path(TestFile)} |-> c] : c \in Texts(MaxLen) }

\* the platforms explored: os.linesep is "\n" or "\r\n"
Lineseps == { << LF >>, << CR, LF >> }

ToolInit ==
    /\ max_iterations = 0
    /\ conversation_history = << >>
    /\ total_tokens = 0
    /\ total_tool_calls = 0
    /\ iterations = 0
    /\ finished = FALSE
    /\ final_result = None
    /\ tool_results = << >>
    /\ tool_idx = 0
    /\ pc = "executor"
    /\ ret = << >>
    /\ sent = << >>
    /\ exec_log = << >>
    /\ reported = 0
    /\ disk \in Disks
    /\ linesep \in Lineseps
    /\ max_retries = 0
    /\ attempt = 0
    /\ final = << >>
    /\ attempts_started = 0
    /\ seen_success = FALSE
    /\ last_call = << >>
    /\ last_result = << >>
    /\ disk_before = NoFiles
    /\ OtherIdle

\* ToolExecutor.execute(tool_name, arguments) is called; files stay within
\* MaxLen characters
Apply(tool_name, arguments) ==
    /\ LET files == execute_disk(tool_name, arguments)
       IN  /\ \A p \in DOMAIN files : Len(files[p]) <= MaxLen
           /\ disk' = files
    /\ last_call' = [name |-> tool_name, arguments |-> arguments]
    /\ last_result' = execute(tool_name, arguments)
    /\ disk_before' = disk
    /\ UNCHANGED << max_iterations, conversation_history, total_tokens,
                    total_tool_calls, iterations, finished, final_result,
                    tool_results, tool_idx, pc, ret, sent, exec_log, reported,
                    linesep, retryVars, otherVars >>

\* lines 129-130
ToolRead ==
    /\ pc = "executor"
    /\ Apply("read_file", [file_path |-> TestFile])

\* lines 131-132
ToolWrite ==
    /\ pc = "executor"
    /\ \E content \in Texts(MaxText) :
          Apply("write_file", [file_path |-> TestFile, content |-> content])

\* lines 133-138
ToolEdit ==
    /\ pc = "executor"
    /\ \E old_text \in Texts(MaxText), new_text \in Texts(MaxText) :
          Apply("edit_file", [file_path |-> TestFile, old_text |-> old_text,
                              new_text |-> new_text])

\* lines 133-138, 147-151: a call that lacks a field
ToolEditIncomplete ==
    /\ pc = "executor"
    /\ \E new_text \in Texts(MaxText) :
          Apply("edit_file", [file_path |-> TestFile, new_text |-> new_text])

\* lines 141-145: a name outside the five tools
ToolUnknown ==
    /\ pc = "executor"
    /\ Apply("delete_file", [file_path |-> TestFile])

ToolNext ==
    \/ ToolRead
    \/ ToolWrite
    \/ ToolEdit
    \/ ToolEditIncomplete
    \/ ToolUnknown

ToolSpec == ToolInit /\ [][ToolNext]_vars

---------------------------------------------------------------------------
(* src/agent.py, src/tools.py: two Agents constructed with distinct        *)
(* working directories, each handling the tool calls of its own model, the *)
(* steps of the two interleaved in any order.  A path is the sequence of   *)
(* its components, "/" first for an absolute path.  Both executors open    *)
(* the files of one file system.                                           *)

Agents == {1, 2}

\* Agent(working_dir=...) of each Agent (agent.py line 27)
WorkingDirs == << << "/", "w", "a" >>, << "/", "w", "b" >> >>

\* os.path.isabs(file_path)
isabs(file_path) == file_path # << >> /\ Head(file_path) = "/"

\* os.path.join(dir, file_path) for a relative file_path
join(dir, file_path) == dir \o file_path

\* lines 190, 215: the path ToolExecutor opens for file_path
ResolvedPath(dir, file_path) ==
    IF ~isabs(file_path) THEN join(dir, file_path) ELSE file_path

\* lines 186-209: read_file of the executor with working directory dir on the files f
ReadIn(dir, f, file_path) ==
    IF ResolvedPath(dir, file_path) \in DOMAIN f
    THEN [success |-> TRUE, output |-> TranslateRead(f[ResolvedPath(dir, file_path)])]
    ELSE [success |-> FALSE, error |-> "File not found"]

\* lines 211-232: write_file of that executor, the files after the call
WriteIn(dir, f, file_path, content) ==
    [p \in DOMAIN f \cup {ResolvedPath(dir, file_path)} |->
        IF p = ResolvedPath(dir, file_path) THEN TranslateWrite(content) ELSE f[p]]

\* the paths the two models may name: relative, and absolute
PairPaths == { << "test.txt" >>, << "/", "w", "b", "test.txt" >> }

PairInit ==
    /\ AgentIdle
    /\ pc = "pair"
    /\ fs = NoFiles
    /\ agents = [a \in Agents |-> [conversation_history |-> << >>,
                                   total_tool_calls |-> 0]]
    /\ alone = [a \in Agents |-> [fs |-> NoFiles, conversation_history |-> << >>]]
    /\ touched = [a \in Agents |-> {}]
    /\ HttpIdle
    /\ LoopIdle
    /\ PoolIdle

\* agent.py lines 102-127 for one tool call of Agent a: the call is counted,
\* executed on the Agent's own executor and answered by a tool-result turn;
\* the history repeats the call on the files the Agent has when run alone
Handle(a, name, arguments, result, files, result_alone, files_alone) ==
    LET tool_call == ToolCall(a, agents[a].total_tool_calls + 1,
                              [name |-> name, arguments |-> arguments])
    IN  /\ agents' = [agents EXCEPT
              ![a].total_tool_calls = @ + 1,
              ![a].conversation_history = Append(@, ToolResultTurn(tool_call, result))]
        /\ fs' = files
        /\ alone' = [alone EXCEPT
              ![a].fs = files_alone,
              ![a].conversation_history =
                    Append(@, ToolResultTurn(tool_call, result_alone))]
        /\ touched' = [touched EXCEPT
              ![a] = @ \cup {ResolvedPath(WorkingDirs[a], arguments.file_path)}]
        /\ UNCHANGED << pc, agentVars, httpVars, loopVars, poolVars >>

\* Agent a handles a read_file call
PairRead(a) ==
    /\ pc = "pair"
    /\ agents[a].total_tool_calls < MaxPairCalls
    /\ \E file_path \in PairPaths :
          Handle(a, "read_file", [file_path |-> file_path],
                 ReadIn(WorkingDirs[a], fs, file_path), fs,
                 ReadIn(WorkingDirs[a], alone[a].fs, file_path), alone[a].fs)

\* Agent a handles a write_file call
PairWrite(a) ==
    /\ pc = "pair"
    /\ agents[a].total_tool_calls < MaxPairCalls
    /\ \E file_path \in PairPaths, content \in Texts(MaxText) :
          Handle(a, "write_file", [file_path |-> file_path, content |-> content],
                 write_file(file_path, content),
                 WriteIn(WorkingDirs[a], fs, file_path, content),
                 write_file(file_path, content),
                 WriteIn(WorkingDirs[a], alone[a].fs, file_path, content))

PairNext ==
    \/ \E a \in Agents : PairRead(a)
    \/ \E a \in Agents : PairWrite(a)

PairSpec == PairInit /\ [][PairNext]_vars

---------------------------------------------------------------------------
(* src/openrouter_client.py: OpenRouterClient.chat_completion, lines       *)
(* 98-117.  The endpoint and the requests library are the environment: a   *)
(* request ends in a transport error or in a http_response with a status, a     *)
(* body that parses as JSON or does not, and a Location header or none;    *)
(* requests.post follows a redirection on its own, raise_for_status raises *)
(* for the statuses 400..599, and Response.json raises for a body that     *)
(* does not parse.                                                         *)

\* the statuses the endpoint answers with
Statuses == {200, 300, 302, 404, 500}

\* a body that parses as JSON, and one that does not
Bodies == {"{\"choices\": []}", "<html>"}

HttpResponses == [status_code : Statuses, text : Bodies, location : BOOLEAN]

\* Response.is_redirect: a redirection status with a Location header
is_redirect(r) == r.location /\ r.status_code \in {301, 302, 303, 307, 308}

\* line 105: response.raise_for_status() raises HTTPError
raise_for_status(r) == 400 <= r.status_code /\ r.status_code < 600

\* line 106: response.json(), the parsed body or a raise
ResponseJson(r) ==
    IF r.text = "{\"choices\": []}"
    THEN [raised |-> FALSE, value |-> [choices |-> << >>]]
    ELSE [raised |-> TRUE, error |-> "Expecting value"]

HttpInit ==
    /\ AgentIdle
    /\ PairIdle
    /\ HttpIdle
    /\ LoopIdle
    /\ PoolIdle
    /\ pc = "client"

\* OpenRouterClient.chat_completion is called (lines 78-93 build the payload)
ChatCompletion ==
    /\ pc = "client"
    /\ completions < MaxCompletions
    /\ pc' = "post"
    /\ http_response' = << >>
    /\ http_requests' = 0
    /\ outcome' = << >>
    /\ UNCHANGED << completions, agentVars, pairVars, loopVars,
                    poolVars >>

\* lines 99-104: requests.post issues a request and the endpoint answers; a
\* redirection is followed by a further request
Post ==
    /\ pc = "post"
    /\ http_requests' = http_requests + 1
    /\ \E r \in HttpResponses :
          /\ is_redirect(r) => http_requests < MaxRedirects
          /\ http_response' = r
          /\ pc' = IF is_redirect(r) THEN "post" ELSE "raise_for_status"
    /\ UNCHANGED << outcome, completions, agentVars, pairVars, loopVars,
                    poolVars >>

\* lines 99-104: requests.post issues a request that ends in a transport error
PostFails ==
    /\ pc = "post"
    /\ http_requests' = http_requests + 1
    /\ http_response' = << >>
    /\ pc' = "except"
    /\ UNCHANGED << outcome, completions, agentVars, pairVars, loopVars,
                    poolVars >>

\* line 105
RaiseForStatus ==
    /\ pc = "raise_for_status"
    /\ pc' = IF raise_for_status(http_response) THEN "except_http" ELSE "json"
    /\ UNCHANGED << httpVars, agentVars, pairVars, loopVars,
                    poolVars >>

\* line 106: return response.json()
ReturnJson ==
    /\ pc = "json"
    /\ IF ResponseJson(http_response).raised
       THEN /\ pc' = "except"
            /\ UNCHANGED << outcome, completions >>
       ELSE /\ pc' = "client"
            /\ outcome' = [returned |-> ResponseJson(http_response).value]
            /\ completions' = completions + 1
    /\ UNCHANGED << http_response, http_requests, agentVars, pairVars, loopVars,
                    poolVars >>

\* lines 108-114: except requests.exceptions.HTTPError
ExceptHTTPError ==
    /\ pc = "except_http"
    /\ pc' = "client"
    /\ outcome' = [raised |-> "OpenRouter API error"]
    /\ completions' = completions + 1
    /\ UNCHANGED << http_response, http_requests, agentVars, pairVars, loopVars,
                    poolVars >>

\* lines 116-117: except Exception
ExceptException ==
    /\ pc = "except"
    /\ pc' = "client"
    /\ outcome' = [raised |-> "Request failed"]
    /\ completions' = completions + 1
    /\ UNCHANGED << http_response, http_requests, agentVars, pairVars, loopVars,
                    poolVars >>

HttpNext ==
    \/ ChatCompletion
    \/ Post
    \/ PostFails
    \/ RaiseForStatus
    \/ ReturnJson
    \/ ExceptHTTPError
    \/ ExceptException

HttpSpec == HttpInit /\ [][HttpNext]_vars

---------------------------------------------------------------------------
(* src/openrouter_agent.py: the stand-alone loop agent(), lines 80-139,    *)
(* with execute_tool, lines 55-77.  The model endpoint is the environment: *)
(* a call of client.chat.completions.create raises or returns a message    *)
(* with text and no tool calls, or with a batch of tool calls.             *)

\* lines 55-77: execute_tool(name, args), the text it returns
execute_tool(name, args) ==
    CASE name = "bash_command" ->
            IF "command" \notin DOMAIN args THEN "Error: 'command'"
            ELSE IF returncode(args["command"]) = 0
                 THEN (IF stdout(args["command"]) # ""
                       THEN "Success:\n" \o stdout(args["command"])
                       ELSE "Success (no output)")
                 ELSE "Error (code 1):\n"
      [] name = "think" ->
            "Thought recorded. Continue thinking or provide final answer."
      [] OTHER -> "Unknown tool"

\* name and arguments of the tool calls the scripted endpoint may request
LoopShapes ==
    { [name |-> "think",        arguments |-> ArgsNoSummary],
      [name |-> "bash_command", arguments |-> ArgsCommand],
      [name |-> "bash_command", arguments |-> ArgsCommandFails],
      [name |-> "bash_command", arguments |-> ArgsMalformed] }

\* the messages the response to model call i may carry
LoopMessages(i) ==
    { [role |-> "assistant", content |-> None, tool_calls |-> b] :
        b \in UNION { BatchesOf(LoopShapes, i, n) : n \in 1..MaxBatch } }
    \cup { [role |-> "assistant", content |-> "answer", tool_calls |-> << >>] }

LoopInit ==
    /\ AgentIdle
    /\ PairIdle
    /\ HttpIdle
    /\ LoopIdle
    /\ PoolIdle
    /\ pc = "module"

\* lines 80-92: agent(user_prompt, system_message, max_iterations) is called
AgentCall ==
    /\ pc = "module"
    /\ agent_max_iterations' \in 0..MaxIter
    /\ \E system_message \in {None, SystemPrompt} :
          messages' =
              (IF system_message # None
               THEN << [role |-> "system", content |-> system_message] >>
               ELSE << >>)
              \o << [role |-> "user", content |-> Task] >>
    /\ iteration' = 0
    /\ call_idx' = 0
    /\ answer' = None
    /\ raised_at' = 0
    /\ pc' = "for"
    /\ UNCHANGED << agentVars, pairVars, httpVars, poolVars >>

\* line 94: for iteration in range(max_iterations)
ForGuard == iteration < agent_max_iterations

\* line 94: a further pass of the loop
ForIterate ==
    /\ pc = "for"
    /\ ForGuard
    /\ iteration' = iteration + 1
    /\ pc' = "create"
    /\ UNCHANGED << agent_max_iterations, messages, call_idx, answer, raised_at,
                    agentVars, pairVars, httpVars, poolVars >>

\* lines 136-139: the loop is exhausted
ForLeave ==
    /\ pc = "for"
    /\ ~ForGuard
    /\ answer' = "Max iterations reached"
    /\ pc' = "agent_returned"
    /\ UNCHANGED << agent_max_iterations, messages, iteration, call_idx, raised_at,
                    agentVars, pairVars, httpVars, poolVars >>

\* lines 99-103: client.chat.completions.create raises
CreateRaises ==
    /\ pc = "create"
    /\ raised_at' = 99
    /\ pc' = "agent_raised"
    /\ UNCHANGED << agent_max_iterations, messages, iteration, call_idx, answer,
                    agentVars, pairVars, httpVars, poolVars >>

\* lines 99-109, 130-134: the endpoint answers model call number iteration
Create ==
    /\ pc = "create"
    /\ \E msg \in LoopMessages(iteration) :
          /\ messages' = Append(messages, msg)
          /\ IF msg.tool_calls # << >>
             THEN /\ call_idx' = 1
                  /\ pc' = "tool_calls"
                  /\ UNCHANGED answer
             ELSE /\ answer' = msg.content
                  /\ pc' = "agent_returned"
                  /\ UNCHANGED call_idx
    /\ UNCHANGED << agent_max_iterations, iteration, raised_at,
                    agentVars, pairVars, httpVars, poolVars >>

\* msg of the current pass: the last assistant message appended
msg == messages[CHOOSE j \in 1..Len(messages) :
                    /\ messages[j].role = "assistant"
                    /\ \A l \in (j + 1)..Len(messages) : messages[l].role # "assistant"]

\* lines 125-129: the tool message of a call
ToolMessage(tool_call, result) ==
    [role |-> "tool", tool_call_id |-> tool_call.id, content |-> result]

\* lines 114-129: one pass of the loop over msg.tool_calls
ExecuteTool ==
    /\ pc = "tool_calls"
    /\ LET tool_call == msg.tool_calls[call_idx]
           args == JsonLoads(tool_call.function.arguments)
       IN  IF args.raised
           THEN /\ raised_at' = 116
                /\ pc' = "agent_raised"
                /\ UNCHANGED << messages, call_idx >>
           ELSE /\ messages' = Append(messages,
                        ToolMessage(tool_call,
                                    execute_tool(tool_call.function.name, args.value)))
                /\ call_idx' = call_idx + 1
                /\ pc' = IF call_idx = Len(msg.tool_calls) THEN "for" ELSE "tool_calls"
                /\ UNCHANGED raised_at
    /\ UNCHANGED << agent_max_iterations, iteration, answer,
                    agentVars, pairVars, httpVars, poolVars >>

LoopNext ==
    \/ AgentCall
    \/ ForIterate
    \/ ForLeave
    \/ CreateRaises
    \/ Create
    \/ ExecuteTool

LoopSpec == LoopInit /\ [][LoopNext]_vars

---------------------------------------------------------------------------
(* src/test_apps.py: run_tests, lines 150-246.  Every (problem, strategy)  *)
(* pair is one task of the thread pool; the tasks end in any order, each   *)
(* returning its result or raising, and the main thread takes the futures  *)
(* in the order in which they are done.  A task runs test_strategy, which  *)
(* turns every Exception into a failed result (lines 130-143); what is     *)
(* raised past it is a BaseException of the code the model wrote, such as  *)
(* SystemExit.                                                             *)

\* the names of the strategies dict
StrategyNames == {"cot", "self_planning"}

\* lines 200-204: one task for every problem index and strategy name
Tasks(n) == (0..(n - 1)) \X StrategyNames

PoolInit ==
    /\ AgentIdle
    /\ PairIdle
    /\ HttpIdle
    /\ LoopIdle
    /\ PoolIdle
    /\ pc = "run_tests"

\* lines 161-204: the problems are loaded, results["tests"] gets an entry
\* without results for every problem, and every task is submitted
RunTests ==
    /\ pc = "run_tests"
    /\ problems' \in 0..MaxProblems
    /\ tests' = [idx \in 0..(problems' - 1) |-> << >>]
    /\ futures' = [t \in Tasks(problems') |-> [state |-> "RUNNING"]]
    /\ collected' = {}
    /\ summary' = << >>
    /\ pc' = "as_completed"
    /\ UNCHANGED << agentVars, pairVars, httpVars, loopVars >>

\* lines 194-197: _run_strategy returns the index, the name and the result
\* of test_strategy, which records whether all test cases passed
TaskReturns ==
    /\ pc = "as_completed"
    /\ \E t \in DOMAIN futures, passed \in BOOLEAN :
          /\ futures[t].state = "RUNNING"
          /\ futures' = [futures EXCEPT ![t] =
                [state |-> "FINISHED",
                 result |-> << t[1], t[2], [passed |-> passed, of |-> t] >>]]
    /\ UNCHANGED << pc, problems, collected, tests, summary,
                    agentVars, pairVars, httpVars, loopVars >>

\* lines 194-197: the code run by test_strategy raises a BaseException
TaskRaises ==
    /\ pc = "as_completed"
    /\ \E t \in DOMAIN futures :
          /\ futures[t].state = "RUNNING"
          /\ futures' = [futures EXCEPT ![t] =
                [state |-> "FINISHED", exception |-> "SystemExit"]]
    /\ UNCHANGED << pc, problems, collected, tests, summary,
                    agentVars, pairVars, httpVars, loopVars >>

\* the futures as_completed may yield next
Done == { t \in DOMAIN futures : futures[t].state = "FINISHED" /\ t \notin collected }

\* line 213: results["tests"][problem_id]["strategies"][name] = problem_result
Store(results_tests, idx, name, result) ==
    [results_tests EXCEPT ![idx] =
        [n \in DOMAIN @ \cup {name} |-> IF n = name THEN result ELSE @[n]]]

\* lines 206-215: a pass of the loop over as_completed(futures)
Collect ==
    /\ pc = "as_completed"
    /\ \E t \in Done :
          /\ "result" \in DOMAIN futures[t]
          /\ LET idx == futures[t].result[1]
                 name == futures[t].result[2]
                 result == futures[t].result[3]
             IN  tests' = Store(tests, idx, name, result)
          /\ collected' = collected \cup {t}
    /\ UNCHANGED << pc, problems, futures, summary,
                    agentVars, pairVars, httpVars, loopVars >>

\* line 207: future.result() raises what the task raised; run_tests ends
CollectRaises ==
    /\ pc = "as_completed"
    /\ \E t \in Done : "exception" \in DOMAIN futures[t]
    /\ pc' = "run_tests_raised"
    /\ UNCHANGED << poolVars, agentVars, pairVars, httpVars, loopVars >>

\* lines 222-226: fully_passed of a strategy
FullyPassed(results_tests, strategy_name) ==
    Cardinality({ idx \in DOMAIN results_tests :
                    /\ strategy_name \in DOMAIN results_tests[idx]
                    /\ results_tests[idx][strategy_name].passed })

\* lines 217-246: every future has been yielded; the summary is computed and
\* run_tests returns
Summarise ==
    /\ pc = "as_completed"
    /\ collected = DOMAIN futures
    /\ summary' = [strategy_name \in StrategyNames |->
                      [total_problems |-> problems,
                       fully_passed |-> FullyPassed(tests, strategy_name)]]
    /\ pc' = "run_tests_returned"
    /\ UNCHANGED << problems, futures, collected, tests,
                    agentVars, pairVars, httpVars, loopVars >>

PoolNext ==
    \/ RunTests
    \/ TaskReturns
    \/ TaskRaises
    \/ Collect
    \/ CollectRaises
    \/ Summarise

PoolSpec == PoolInit /\ [][PoolNext]_vars

---------------------------------------------------------------------------
(* Vocabulary of the properties.                                           *)

IsAssistant(turn) == turn.role = "assistant"

IsTool(turn) == turn.role = "tool"

\* the tool calls of a turn (none for a turn that is not an assistant turn)
CallsOf(turn) == IF IsAssistant(turn) THEN turn.tool_calls ELSE << >>

\* the response to gateway call c, once its message is in the conversation h
ResponseTurn(h, c) == h[Len(sent[c]) + 1]

\* the message of gateway call c has been appended to the conversation
Answered(c) ==
    /\ c \in 1..Len(sent)
    /\ Len(conversation_history) > Len(sent[c])
    /\ IsAssistant(ResponseTurn(conversation_history, c))

\* the number of tool calls requested by the assistant turns of h
RECURSIVE CallsRequested(_)
CallsRequested(h) ==
    IF h = << >> THEN 0
    ELSE Len(CallsOf(h[1])) + CallsRequested(Tail(h))

\* Agent.run has returned through the normal exit (lines 147-155)
ReturnedRecord == pc = "returned" /\ "result" \in DOMAIN ret

\* Agent.run has returned through the except branch (lines 157-165)
ReturnedError == pc = "returned" /\ "error" \in DOMAIN ret

---------------------------------------------------------------------------
(* C1: every tool-result turn of the conversation carries the id of one of *)
(* the tool calls of the nearest preceding assistant turn, and no other    *)
(* assistant turn lies between the two.                                    *)
C1_Correlation ==
    \A j \in 1..Len(conversation_history) :
        IsTool(conversation_history[j]) =>
            \E a \in 1..(j - 1) :
                /\ IsAssistant(conversation_history[a])
                /\ \A b \in (a + 1)..(j - 1) : ~IsAssistant(conversation_history[b])
                /\ \E k \in 1..Len(conversation_history[a].tool_calls) :
                      conversation_history[a].tool_calls[k].id
                          = conversation_history[j].tool_call_id

\* a conversation holding the results of a batch of two calls, in a second iteration
C1_Witness ==
    /\ Len(conversation_history) >= 7
    /\ IsTool(conversation_history[4])
    /\ IsTool(conversation_history[6])
    /\ IsTool(conversation_history[7])

---------------------------------------------------------------------------
(* C2: at every gateway call, each assistant turn already in the message   *)
(* list that carries n tool calls is immediately followed by exactly n     *)
(* tool-result turns, one per call and in the order of the calls; and the  *)
(* calls of one assistant turn are handed to the executor one at a time in *)
(* that order.                                                             *)

\* in h, assistant turn a is followed by exactly one result per call, in order
ResultsFollow(h, a) ==
    LET n == Len(h[a].tool_calls)
    IN  /\ a + n <= Len(h)
        /\ \A k \in 1..n :
              /\ IsTool(h[a + k])
              /\ h[a + k].tool_call_id = h[a].tool_calls[k].id
        /\ (a + n + 1 <= Len(h)) => ~IsTool(h[a + n + 1])

\* the executor received position k of a response right after position k - 1
ExecutedInOrder ==
    \A e \in 1..Len(exec_log) :
        \/ exec_log[e].id[2] = 1
        \/ /\ e > 1
           /\ exec_log[e - 1].id = << exec_log[e].id[1], exec_log[e].id[2] - 1 >>

C2_ResultsInCallOrder ==
    /\ \A c \in 1..Len(sent) :
          \A a \in 1..Len(sent[c]) :
              IsAssistant(sent[c][a]) => ResultsFollow(sent[c], a)
    /\ ExecutedInOrder

\* a gateway call whose message list holds a batch of two calls and its results
C2_Witness ==
    /\ pc = "gateway"
    /\ Len(sent) = 2
    /\ Len(sent[2]) = 5
    /\ Len(sent[2][3].tool_calls) = 2
    /\ Len(exec_log) = 2

---------------------------------------------------------------------------
(* C3: for max_iterations >= 1, when the first gateway response carries a  *)
(* single finish call with summary text s, the run makes exactly one       *)
(* gateway call and returns success = true, result = s, iterations = 1.    *)

\* the first response carries one call, a finish call whose summary is a text
FirstIsSingleFinish ==
    /\ Answered(1)
    /\ LET calls == ResponseTurn(conversation_history, 1).tool_calls
       IN  /\ Len(calls) = 1
           /\ calls[1].function.name = "finish"
           /\ calls[1].function.arguments \in {ArgsDone, ArgsEmpty}

\* the summary text of that call
FirstSummary ==
    JsonLoads(ResponseTurn(conversation_history, 1).tool_calls[1]
                  .function.arguments).value["summary"]

C3_ImmediateFinish ==
    (max_iterations >= 1 /\ FirstIsSingleFinish) =>
        /\ Len(sent) = 1
        /\ pc \in {"tools", "while", "exit", "returned"}
        /\ pc = "returned" =>
              /\ ReturnedRecord
              /\ ret.success = TRUE
              /\ ret.result = FirstSummary
              /\ ret.iterations = 1

\* a run with a budget of three iterations that returned after one finish call
C3_Witness ==
    /\ max_iterations = 3
    /\ FirstIsSingleFinish
    /\ pc = "returned"
    /\ ret.result = "done"

---------------------------------------------------------------------------
(* C4 as stated: for max_iterations >= 1, when every gateway response      *)
(* carries no tool call, the run ends with iterations = max_iterations,    *)
(* success = false and result = None.                                      *)

\* the run returned and every gateway call was answered by a turn without tool calls
AllWithoutToolCalls ==
    /\ ReturnedRecord
    /\ Len(sent) >= 1
    /\ Len(ret.conversation_history) = 2 + Len(sent)
    /\ \A j \in 3..Len(ret.conversation_history) :
          /\ IsAssistant(ret.conversation_history[j])
          /\ ret.conversation_history[j].tool_calls = << >>

C4_Original ==
    (max_iterations >= 1 /\ AllWithoutToolCalls) =>
        /\ ret.iterations = max_iterations
        /\ ret.success = FALSE
        /\ ret.result = None

(* C4 amended: for max_iterations >= 1, when every gateway response        *)
(* carries no tool call, the run ends with success = false, result = None  *)
(* and iterations = max_iterations - 1 (iterations = 1 when                *)
(* max_iterations = 1), after as many gateway calls.                       *)
C4_StuckRunEndsEarly ==
    (max_iterations >= 1 /\ AllWithoutToolCalls) =>
        /\ ret.iterations = (IF max_iterations = 1 THEN 1 ELSE max_iterations - 1)
        /\ Len(sent) = ret.iterations
        /\ ret.success = FALSE
        /\ ret.result = None

\* a run with a budget of three that returned after two turns without tool calls
C4_Witness ==
    /\ max_iterations = 3
    /\ AllWithoutToolCalls
    /\ ret.iterations = 2

---------------------------------------------------------------------------
(* C5: with max_iterations = m, an assistant turn without tool calls       *)
(* received at iteration i ends the loop at once when i >= m - 1; when     *)
(* i < m - 1 the loop makes a further gateway call, whose message list is  *)
(* the previous message list plus that assistant turn only.                *)

\* gateway call c was answered by an assistant turn without tool calls
AnsweredWithoutToolCalls(c) ==
    /\ Answered(c)
    /\ ResponseTurn(conversation_history, c).tool_calls = << >>

C5_StuckTurn ==
    \A c \in 1..Len(sent) :
        AnsweredWithoutToolCalls(c) =>
            /\ (c >= max_iterations - 1) =>
                  /\ Len(sent) = c
                  /\ pc \in {"exit", "returned"}
            /\ (c < max_iterations - 1) =>
                  /\ (Len(sent) = c) => (pc = "while" /\ ENABLED LoopIterate)
                  /\ (Len(sent) > c) =>
                        sent[c + 1] =
                            Append(sent[c], ResponseTurn(conversation_history, c))

\* a second gateway call made after a first turn without tool calls
C5_Witness ==
    /\ max_iterations = 3
    /\ Len(sent) = 2
    /\ AnsweredWithoutToolCalls(1)
    /\ pc = "gateway"

\* the loop ended by a turn without tool calls at the second of three iterations
C5_WitnessEnd ==
    /\ max_iterations = 3
    /\ AnsweredWithoutToolCalls(2)
    /\ pc = "exit"

---------------------------------------------------------------------------
(* C6 as stated, for a batch whose only finish call carries a summary      *)
(* text and follows calls with well-formed arguments: when the last assistant turn carries n tool calls and the call at *)
(* position k is that finish call, then whatever the other calls hold the  *)
(* run executes all n calls in order, appends n tool-result turns, makes   *)
(* no further gateway call and returns success = true with the summary of  *)
(* the finish call as result.                                              *)

\* the batch of the last gateway response
LastBatch == ResponseTurn(conversation_history, Len(sent)).tool_calls

\* position k of the last batch is a finish call with a summary text, no
\* other call of the batch is a finish call, and the calls before it parse
OnlyFinishAt(k) ==
    /\ LastBatch[k].function.name = "finish"
    /\ LastBatch[k].function.arguments \in {ArgsDone, ArgsEmpty}
    /\ \A j \in 1..Len(LastBatch) : j # k => LastBatch[j].function.name # "finish"
    /\ \A j \in 1..(k - 1) : ~JsonLoads(LastBatch[j].function.arguments).raised

\* the ids handed to the executor in iteration c, in the order of the hand-over
RECURSIVE ExecutedIds(_, _)
ExecutedIds(log, c) ==
    IF log = << >> THEN << >>
    ELSE IF Head(log).iteration = c
         THEN << Head(log).id >> \o ExecutedIds(Tail(log), c)
         ELSE ExecutedIds(Tail(log), c)

C6_Original ==
    (pc = "returned" /\ Answered(Len(sent))) =>
        \A k \in 1..Len(LastBatch) :
            OnlyFinishAt(k) =>
                /\ ExecutedIds(exec_log, Len(sent)) =
                       [j \in 1..Len(LastBatch) |-> LastBatch[j].id]
                /\ ReturnedRecord
                /\ Len(ret.conversation_history) =
                       Len(sent[Len(sent)]) + 1 + Len(LastBatch)
                /\ ret.success = TRUE
                /\ ret.result =
                       JsonLoads(LastBatch[k].function.arguments).value["summary"]

---------------------------------------------------------------------------
(* C7 as stated (its "only if" half): Agent.run returns success = true     *)
(* only if a finish call was executed and the final result it recorded is  *)
(* a non-empty text; a finish call whose summary is the empty string or    *)
(* null does not yield success = true.                                     *)

FinishExecuted == \E e \in 1..Len(exec_log) : exec_log[e].name = "finish"

C7_Original ==
    (ReturnedRecord /\ ret.success) =>
        /\ FinishExecuted
        /\ ret.result # None
        /\ ret.result # ""

---------------------------------------------------------------------------
(* C8 as stated (its safety half): Agent.run makes at most max_iterations  *)
(* gateway calls, and makes no gateway call after an iteration in which a  *)
(* finish call was executed.                                               *)
C8_Original ==
    /\ Len(sent) <= max_iterations
    /\ \A e \in 1..Len(exec_log) :
          exec_log[e].name = "finish" => Len(sent) <= exec_log[e].iteration

(* The parts of C8 that hold: under FairSpec every run returns; a run      *)
(* makes at most max_iterations gateway calls, and none once the finished  *)
(* flag is set.                                                            *)
C8_Terminates == <>(pc = "returned")

C8_WithinBudget ==
    /\ Len(sent) <= max_iterations
    /\ finished => pc \in {"tools", "while", "exit", "returned"}

---------------------------------------------------------------------------
(* C9 as stated: when every one of the max_iterations gateway responses    *)
(* carries tool calls and none of them is a finish call, the run makes     *)
(* exactly max_iterations gateway calls and returns a record with          *)
(* success = false, result = None and iterations = max_iterations that     *)
(* also carries the conversation history.                                  *)

\* gateway call c was answered with tool calls, none of them a finish call
AnsweredWithWork(c) ==
    /\ Answered(c)
    /\ LET calls == ResponseTurn(conversation_history, c).tool_calls
       IN  /\ calls # << >>
           /\ \A k \in 1..Len(calls) : calls[k].function.name # "finish"

C9_Original ==
    ( /\ pc = "returned"
      /\ max_iterations >= 1
      /\ Len(sent) = max_iterations
      /\ \A c \in 1..max_iterations : AnsweredWithWork(c) ) =>
        /\ ReturnedRecord
        /\ ret.success = FALSE
        /\ ret.result = None
        /\ ret.iterations = max_iterations
        /\ "conversation_history" \in DOMAIN ret

---------------------------------------------------------------------------
(* C10: when the gateway call of iteration i fails, the run makes no       *)
(* further gateway or tool call and returns success = false with the error *)
(* text, iterations = i, and tokens and tool_calls equal to the totals of  *)
(* iterations 1..i-1: the usage the gateway reported in its i - 1          *)
(* responses and the tool calls those responses requested.                 *)

\* Agent.run returned because chat_with_tools raised
GatewayFailed == ReturnedError /\ ret.error = "Request failed"

---------------------------------------------------------------------------
\* the arguments string of a tool call is not valid JSON
Malformed(tool_call) == JsonLoads(tool_call.function.arguments).raised

\* turn j of the conversation is a failed tool-result turn for the call id
FailedTurnFor(j, id) ==
    /\ j \in 1..Len(conversation_history)
    /\ IsTool(conversation_history[j])
    /\ conversation_history[j].tool_call_id = id
    /\ ~conversation_history[j].content.json.success

(* C11: a tool call whose arguments string is not valid JSON does not end  *)
(* the run: once Agent.run has returned, it did not return the record of   *)
(* the JSON error, and every such call of every assistant turn is answered *)
(* at its position after that turn by a failed tool-result turn.           *)
C11_Original ==
    pc = "returned" =>
        /\ ~("error" \in DOMAIN ret /\ ret.error = "Expecting value")
        /\ \A a \in 1..Len(conversation_history) :
              \A k \in 1..Len(CallsOf(conversation_history[a])) :
                 Malformed(conversation_history[a].tool_calls[k]) =>
                    FailedTurnFor(a + k, conversation_history[a].tool_calls[k].id)

---------------------------------------------------------------------------
\* the result the executor gives for a tool call whose arguments parse
ResultOf(tool_call) ==
    execute(tool_call.function.name, JsonLoads(tool_call.function.arguments).value)

\* the tool call with the given id of the conversation
CallWithId(id) ==
    LET turn == conversation_history[
                    CHOOSE a \in 1..Len(conversation_history) :
                        \E k \in 1..Len(CallsOf(conversation_history[a])) :
                            conversation_history[a].tool_calls[k].id = id]
    IN  turn.tool_calls[CHOOSE k \in 1..Len(turn.tool_calls) : turn.tool_calls[k].id = id]

(* C12: the executor gives a result with a success flag for every tool     *)
(* name and parsed arguments value the gateway sends, and once Agent.run   *)
(* has returned, every executed call whose result failed has its failed    *)
(* tool-result turn in the conversation.                                   *)
C12_Original ==
    /\ \A shape \in CallShapes :
          ~JsonLoads(shape.arguments).raised =>
              "success" \in DOMAIN execute(shape.name, JsonLoads(shape.arguments).value)
    /\ pc = "returned" =>
          \A e \in 1..Len(exec_log) :
              ~ResultOf(CallWithId(exec_log[e].id)).success =>
                  \E j \in 1..Len(conversation_history) :
                      FailedTurnFor(j, exec_log[e].id)

---------------------------------------------------------------------------
\* lines 147-155: the fields of the record of the normal exit
RecordFields ==
    {"success", "result", "iterations", "tokens", "tool_calls", "time",
     "conversation_history"}

(* C13: the record Agent.run returns has the same fields in every outcome: *)
(* success, result, iterations, tokens, tool_calls, time and the           *)
(* conversation.                                                           *)
C13_Original ==
    pc = "returned" => DOMAIN ret = RecordFields

---------------------------------------------------------------------------
(* C14: whatever the gateway and the executor do, no exception leaves      *)
(* Agent.run, and what Agent.run returns is a record with a success flag   *)
(* and the counters.                                                       *)
C14_AlwaysARecord ==
    /\ pc # "raised"
    /\ pc = "returned" =>
          /\ {"success", "iterations", "tokens", "tool_calls"} \subseteq DOMAIN ret
          /\ ret.success \in BOOLEAN

\* a response whose choice carries no message has ended the run with a record
C14_Witness ==
    /\ ReturnedError
    /\ ret.error = "'message'"
    /\ ret.iterations = 2
    /\ Len(exec_log) >= 1

---------------------------------------------------------------------------
(* Vocabulary of the properties of Agent.run_with_retry.                   *)

\* Agent.run_with_retry has returned
RetryReturned == pc = "retry_returned"

\* the loop of line 206 is about to start an attempt after a failed one
NextAttemptStarts ==
    /\ pc = "for"
    /\ attempts_started >= 1
    /\ attempt < max_retries

\* an attempt is running or has just returned its record
InAttempt == pc \in {"while", "gateway", "tools", "exit", "returned"}

\* the passes of the for loop over tool calls in the attempt that has returned:
\* the calls handed to the executor and the call whose arguments did not parse
CallsHandled ==
    Len(exec_log)
        + (IF "error" \in DOMAIN ret /\ ret.error = "Expecting value" THEN 1 ELSE 0)

(* C15: with max_retries >= 1, run_with_retry starts at most max_retries   *)
(* attempts, starts none after an attempt that returned success=true, and  *)
(* returns the record of the last attempt it ran: a successful one, or the *)
(* failed record of attempt number max_retries.                            *)
C15_FirstSuccessOrLastFailure ==
    (pc # "constructed" /\ max_retries >= 1) =>
        /\ attempts_started <= max_retries
        /\ seen_success => (RetryReturned /\ final.success)
        /\ RetryReturned =>
              /\ final = ret
              /\ final.success \/ attempts_started = max_retries

\* the first attempt failed, the second succeeded and its record is returned
C15_Witness ==
    /\ RetryReturned
    /\ attempts_started = 2
    /\ final.success
    /\ final.result = "done"

(* C16: every attempt after the first starts with an empty conversation    *)
(* and both counters at 0, so the tokens and tool_calls of the record that *)
(* run_with_retry returns are those of the attempt that produced it.       *)
C16_AttemptsStartClean ==
    /\ NextAttemptStarts =>
          /\ conversation_history = << >>
          /\ total_tokens = 0
          /\ total_tool_calls = 0
    /\ InAttempt => total_tokens = reported
    /\ RetryReturned =>
          /\ final.tokens = reported
          /\ final.tool_calls = CallsHandled

\* a second attempt that used tokens and tool calls has produced the record
C16_Witness ==
    /\ RetryReturned
    /\ attempts_started = 2
    /\ final.tokens >= 1
    /\ final.tool_calls >= 2

(* C17: at the start of every attempt after the first, the conversation,   *)
(* the counters and the files of the working directory are as they were at *)
(* the start of the first attempt.                                         *)
C17_Original ==
    NextAttemptStarts =>
        /\ conversation_history = << >>
        /\ total_tokens = 0
        /\ total_tool_calls = 0
        /\ disk = NoFiles

(* C18: for every value of max_retries, 0 included, run_with_retry does    *)
(* not raise, and what it returns is a result record.                      *)
C18_Original ==
    /\ pc # "retry_raised"
    /\ RetryReturned => "success" \in DOMAIN final

---------------------------------------------------------------------------
(* Vocabulary of the properties of the file tools.                         *)

\* the last call was a complete edit_file call
EditApplied ==
    /\ pc = "executor"
    /\ DOMAIN last_call # {}
    /\ last_call.name = "edit_file"
    /\ {"file_path", "old_text", "new_text"} \subseteq DOMAIN last_call.arguments

\* the file the last call names, and whether it existed before the call
EditPath == full_path(last_call.arguments.file_path)

ExistedBefore == EditPath \in DOMAIN disk_before

\* text t is text c with the occurrence of old at place i replaced by new
ReplacedAt(t, c, i, old, new) ==
    t = SubSeq(c, 1, i - 1) \o new \o SubSeq(c, i + Len(old), Len(c))

(* C19: after a successful edit_file on a file of content c in which       *)
(* old_text occurs, the file is c with the leftmost occurrence of old_text *)
(* replaced by new_text and everything else as it was.                     *)
C19_Original ==
    (/\ EditApplied
     /\ ExistedBefore
     /\ last_result.success) =>
        LET c   == disk_before[EditPath]
            old == last_call.arguments.old_text
            new == last_call.arguments.new_text
        IN  Occurrences(c, old) # {} =>
                /\ EditPath \in DOMAIN disk
                /\ \E i \in Occurrences(c, old) :
                      /\ \A j \in Occurrences(c, old) : i <= j
                      /\ ReplacedAt(disk[EditPath], c, i, old, new)

(* C20: when the file is missing or old_text does not occur in it,         *)
(* edit_file fails, leaves the files as they were (a missing file stays    *)
(* missing), and the same call made again fails in the same way.           *)
C20_Original ==
    (/\ EditApplied
     /\ \/ ~ExistedBefore
        \/ Occurrences(disk_before[EditPath], last_call.arguments.old_text) = {}) =>
        /\ ~last_result.success
        /\ disk = disk_before
        /\ execute(last_call.name, last_call.arguments) = last_result
        /\ execute_disk(last_call.name, last_call.arguments) = disk

---------------------------------------------------------------------------
\* the last call was a complete write_file call
WriteApplied ==
    /\ pc = "executor"
    /\ DOMAIN last_call # {}
    /\ last_call.name = "write_file"
    /\ {"file_path", "content"} \subseteq DOMAIN last_call.arguments

(* C21: read_file called right after a successful write_file on the same   *)
(* path succeeds and its output is exactly the content that was written.   *)
C21_Original ==
    (WriteApplied /\ last_result.success) =>
        /\ read_file(last_call.arguments.file_path).success
        /\ read_file(last_call.arguments.file_path).output
               = last_call.arguments.content

---------------------------------------------------------------------------
\* the result carried by turn j of the conversation, a tool-result turn
ResultAt(j) == conversation_history[j].content.json

\* the tool call that tool-result turn j answers: the gateway's id names the
\* gateway call and the position in its response
CallAnswered(j) ==
    LET id == conversation_history[j].tool_call_id
    IN  ResponseTurn(conversation_history, id[1]).tool_calls[id[2]]

\* the tool-result turns of the conversation
ToolTurns == { j \in 1..Len(conversation_history) : IsTool(conversation_history[j]) }

(* C22: the result of a shell command that completed, which carries its    *)
(* exit code in return_code, has success=true whatever the exit code.      *)
C22_Original ==
    \A j \in ToolTurns :
        "return_code" \in DOMAIN ResultAt(j) => ResultAt(j).success

---------------------------------------------------------------------------
\* the tool call asks for a shell command that runs past the deadline
RunsPastDeadline(tool_call) ==
    /\ tool_call.function.name = "bash"
    /\ ~Malformed(tool_call)
    /\ "command" \in DOMAIN JsonLoads(tool_call.function.arguments).value
    /\ duration(JsonLoads(tool_call.function.arguments).value.command) > Timeout

\* the turn is the failed tool-result turn of a deadline, for the call id
IsTimeoutTurn(turn, id) ==
    /\ IsTool(turn)
    /\ turn.tool_call_id = id
    /\ ~turn.content.json.success
    /\ turn.content.json.error = "Command timed out after 60 seconds"

---------------------------------------------------------------------------
(* C24: every result of the executor carries an output text when it        *)
(* succeeded and an error text when it failed.                             *)
C24_Original ==
    \A j \in ToolTurns :
        IF ResultAt(j).success
        THEN "output" \in DOMAIN ResultAt(j) /\ ResultAt(j).output # None
        ELSE "error" \in DOMAIN ResultAt(j)

---------------------------------------------------------------------------
(* C25: the result of every finish call has success=true and               *)
(* finished=true, whatever its arguments.                                  *)
C25_Original ==
    \A j \in ToolTurns :
        CallAnswered(j).function.name = "finish" =>
            /\ ResultAt(j).success
            /\ GetFinished(ResultAt(j))

---------------------------------------------------------------------------
\* parsed calls of the tools other than finish: the shell, the file tools with
\* and without their fields, and a name outside the five tools
OtherCalls ==
    { [name |-> "bash", arguments |-> [command |-> c]] :
        c \in {"pytest", "false", "sleep 100"} }
    \cup { [name |-> n, arguments |-> << >>] :
             n \in {"bash", "read_file", "write_file", "edit_file", "delete_file"} }
    \cup { [name |-> n, arguments |-> [file_path |-> TestFile]] :
             n \in {"read_file", "delete_file"} }
    \cup { [name |-> "write_file",
            arguments |-> [file_path |-> TestFile, content |-> t]] :
             t \in Texts(MaxText) }
    \cup { [name |-> "edit_file",
            arguments |-> [file_path |-> TestFile, old_text |-> t, new_text |-> t]] :
             t \in Texts(MaxText) }

(* C26: no result of a tool other than finish carries the finished flag,   *)
(* neither what the executor of the constructed Agent returns for the      *)
(* calls of the other tools, nor any tool-result turn of the conversation  *)
(* for such a call, and the loop's finished is true only when a finish     *)
(* call was executed in the current iteration.                             *)
C26_OnlyFinishFinishes ==
    /\ pc = "constructed" =>
          \A call \in OtherCalls :
              "finished" \notin DOMAIN execute(call.name, call.arguments)
    /\ \A j \in ToolTurns :
          CallAnswered(j).function.name # "finish" =>
              "finished" \notin DOMAIN ResultAt(j)
    /\ finished =>
          \E e \in 1..Len(exec_log) :
              /\ exec_log[e].name = "finish"
              /\ exec_log[e].iteration = iterations

\* a shell call and then a finish call were executed and the loop finished
C26_Witness ==
    /\ finished
    /\ Len(exec_log) >= 2
    /\ exec_log[1].name = "bash"
    /\ exec_log[Len(exec_log)].name = "finish"

---------------------------------------------------------------------------
---------------------------------------------------------------------------
(* C28: the first gateway call of every run gets exactly two turns, the    *)
(* system turn with the system prompt and the user turn with the task,     *)
(* whatever the conversation of the Agent held before the run.             *)
C28_SeededWithTwoTurns ==
    Len(sent) >= 1 =>
        sent[1] = << [role |-> "system", content |-> SystemPrompt],
                     [role |-> "user", content |-> Task] >>

\* the second run on an Agent whose first run executed tool calls has made
\* its first gateway call
C28_Witness ==
    /\ attempts_started = 2
    /\ Len(sent) = 1
    /\ total_tool_calls >= 1

---------------------------------------------------------------------------
\* two turns are the same turn: the same fields with the same values
SameTurn(a, b) == DOMAIN a = DOMAIN b /\ a = b

\* the turns of p are the first turns of q
IsPrefix(p, q) ==
    /\ Len(p) <= Len(q)
    /\ \A i \in 1..Len(p) : SameTurn(p[i], q[i])

(* C29: in every step of a run the conversation before the step is a       *)
(* prefix of the conversation after it, and a gateway call that starts     *)
(* receives the whole conversation.                                        *)
C29_AppendOnly ==
    [][ /\ IsPrefix(conversation_history, conversation_history')
        /\ pc' = "gateway" =>
              /\ Len(sent'[Len(sent')]) = Len(conversation_history')
              /\ IsPrefix(sent'[Len(sent')], conversation_history')
      ]_vars

\* two gateway calls were answered with tool calls and their results appended
C29_Witness ==
    /\ Len(sent) >= 2
    /\ Cardinality(ToolTurns) >= 2
    /\ pc = "while"

---------------------------------------------------------------------------
(* C30: in every step of a run neither counter decreases, total_tokens     *)
(* grows by what the gateway response of the step reported, and            *)
(* total_tool_calls grows by one in a pass of the loop over the tool calls *)
(* and by nothing in any other step.                                       *)
C30_CountersGrow ==
    [][ /\ total_tokens' >= total_tokens
        /\ total_tool_calls' >= total_tool_calls
        /\ total_tokens' - total_tokens = reported' - reported
        /\ total_tool_calls' - total_tool_calls =
              (IF pc = "tools" /\ tool_idx <= Len(message.tool_calls) THEN 1 ELSE 0)
      ]_vars

\* a run that has counted tokens of two responses and two tool calls
C30_Witness ==
    /\ total_tokens >= 2
    /\ total_tool_calls >= 2
    /\ Len(sent) >= 2

---------------------------------------------------------------------------
(* C31: two Agents with distinct working directories, their steps          *)
(* interleaved in any order, never open the same file, and the             *)
(* conversation and the tool-call counter of each are what they are when   *)
(* the Agent handles the same calls without the other.                     *)

C31_Original ==
    pc = "pair" =>
        /\ touched[1] \cap touched[2] = {}
        /\ \A a \in Agents :
              /\ agents[a].conversation_history = alone[a].conversation_history
              /\ agents[a].total_tool_calls = Len(alone[a].conversation_history)

---------------------------------------------------------------------------
(* C32: one chat_completion call issues exactly one HTTP request; it       *)
(* raises when the request ends in a transport error or in a status        *)
(* outside 200..299, and returns the parsed body for a status within       *)
(* 200..299 whose body parses.                                             *)

\* a chat_completion call has ended
CompletionEnded == pc = "client" /\ DOMAIN outcome # {}

C32_Original ==
    CompletionEnded =>
        /\ http_requests = 1
        /\ DOMAIN http_response = {} => "raised" \in DOMAIN outcome
        /\ DOMAIN http_response # {} =>
              IF http_response.status_code \in 200..299
              THEN ~ResponseJson(http_response).raised =>
                      outcome = [returned |-> ResponseJson(http_response).value]
              ELSE "raised" \in DOMAIN outcome

---------------------------------------------------------------------------
(* C33: once Agent.run has returned, through the normal exit or the except *)
(* branch, every call that was handed to the executor in this run has its  *)
(* tool-result turn in the Agent's conversation.                           *)

C33_Original ==
    pc = "returned" =>
        \A e \in 1..Len(exec_log) :
            \E j \in ToolTurns :
                conversation_history[j].tool_call_id = exec_log[e].id

---------------------------------------------------------------------------
(* C34: at every return of Agent.run on a fresh Agent the tool_calls of    *)
(* the record is the number of calls handed to the executor in the run,    *)
(* and the record of the normal exit carries as many tool-result turns in  *)
(* its conversation.                                                       *)

\* the number of tool-result turns of the conversation h
RECURSIVE ToolTurnCount(_)
ToolTurnCount(h) ==
    IF h = << >> THEN 0
    ELSE (IF IsTool(h[1]) THEN 1 ELSE 0) + ToolTurnCount(Tail(h))

C34_Original ==
    pc = "returned" =>
        /\ ret.tool_calls = Len(exec_log)
        /\ ReturnedRecord =>
              ret.tool_calls = ToolTurnCount(ret.conversation_history)

---------------------------------------------------------------------------
(* C35: the tokens of the record Agent.run returns, through either exit,   *)
(* are the sum of the total_tokens the gateway responses of the run        *)
(* reported, a response without usage block counting zero and ending no   *)
(* run; the record of a run that ended on a response without choices       *)
(* includes the tokens of that response.                                   *)

\* the run ended in the except branch on a response that carried no choices
EndedWithoutChoices == ReturnedError /\ ret.error = "'choices'"

\* what ends a run in the except branch: the gateway call, a response without
\* choices or message, arguments that do not parse; never the usage accounting
RunErrors == {"Request failed", "'choices'", "'message'", "Expecting value"}

---------------------------------------------------------------------------
(* C36: the record of a second Agent.run call on the same Agent counts     *)
(* only the work of that call: its tokens are the tokens the gateway       *)
(* reported during the call and its tool_calls the passes of the loop over *)
(* tool calls made during the call.                                        *)

C36_Original ==
    (pc = "returned" /\ attempts_started >= 2) =>
        /\ ret.tokens = reported
        /\ ret.tool_calls = CallsHandled

---------------------------------------------------------------------------
(* C37: when the last assistant turn of a run that has returned carries    *)
(* several finish calls, every one of them was executed and the run        *)
(* returned the record of the normal exit with the summary of the last of  *)
(* them as its result.                                                     *)

\* the positions of the finish calls in a batch of tool calls
FinishCalls(batch) ==
    { k \in 1..Len(batch) : batch[k].function.name = "finish" }

\* the last of a non-empty set of positions
LastOf(positions) == CHOOSE k \in positions : \A l \in positions : l <= k

\* the summary a finish call carries (None for a call that carries none)
SummaryOf(tool_call) ==
    LET args == JsonLoads(tool_call.function.arguments)
    IN  IF ~args.raised /\ "summary" \in DOMAIN args.value
        THEN args.value.summary
        ELSE None

\* the run has returned and its last response carried several finish calls
SeveralFinishCalls ==
    /\ pc = "returned"
    /\ Len(sent) >= 1
    /\ Answered(Len(sent))
    /\ Cardinality(FinishCalls(message.tool_calls)) >= 2

C37_Original ==
    SeveralFinishCalls =>
        /\ \A k \in FinishCalls(message.tool_calls) :
              \E e \in 1..Len(exec_log) : exec_log[e].id = message.tool_calls[k].id
        /\ ReturnedRecord
        /\ ret.result = SummaryOf(message.tool_calls[LastOf(FinishCalls(message.tool_calls))])

---------------------------------------------------------------------------
(* C38: the stand-alone loop agent() makes at most max_iterations model    *)
(* calls; a response without tool calls is the last message, and its       *)
(* content is returned at once; the answer "Max iterations reached" is     *)
(* returned after exactly max_iterations calls, and while the endpoint     *)
(* answers, the loop ends in no other way; every tool message follows the  *)
(* assistant message of its call at the position of the call and carries   *)
(* the call's id.                                                          *)

\* message j is an assistant message without tool calls
IsFinalText(j) ==
    messages[j].role = "assistant" /\ messages[j].tool_calls = << >>

\* tool message j answers call k of the assistant message k places before it
FollowsItsCall(j) ==
    LET k == messages[j].tool_call_id[2]
    IN  /\ j - k >= 1
        /\ messages[j - k].role = "assistant"
        /\ k <= Len(messages[j - k].tool_calls)
        /\ messages[j - k].tool_calls[k].id = messages[j].tool_call_id

C38_Original ==
    /\ iteration <= agent_max_iterations
    /\ \A j \in 1..Len(messages) :
          IsFinalText(j) =>
              /\ j = Len(messages)
              /\ pc = "agent_returned"
              /\ answer = messages[j].content
    /\ answer = "Max iterations reached" =>
          /\ pc = "agent_returned"
          /\ iteration = agent_max_iterations
    /\ pc = "agent_raised" => raised_at = 99
    /\ \A j \in 1..Len(messages) :
          messages[j].role = "tool" => FollowsItsCall(j)

---------------------------------------------------------------------------
(* C39: when run_tests has ended, whatever the order in which the tasks    *)
(* ended, every (problem, strategy) pair has the result of its own task    *)
(* stored under its problem and strategy name, and the fully_passed of     *)
(* every strategy in the summary is the number of problems whose stored    *)
(* result for the strategy has passed.                                     *)

\* run_tests has returned or raised
RunTestsEnded == pc \in {"run_tests_returned", "run_tests_raised"}

\* the pair t has the result of its own task stored
StoredOwn(t) ==
    /\ t[2] \in DOMAIN tests[t[1]]
    /\ tests[t[1]][t[2]].of = t

C39_Original ==
    RunTestsEnded =>
        /\ \A t \in Tasks(problems) : StoredOwn(t)
        /\ \A idx \in DOMAIN tests :
              \A name \in DOMAIN tests[idx] : tests[idx][name].of = << idx, name >>
        /\ pc = "run_tests_returned" =>
              \A s \in StrategyNames :
                  summary[s].fully_passed =
                      Cardinality({ idx \in 0..(problems - 1) :
                                      StoredOwn(<< idx, s >>) /\ tests[idx][s].passed })

====
